---- MODULE Spec2Model ----
(***************************************************************************)
(* Model of Project-Chromkenstain:                                         *)
(*   src/numeric_model.py  : Model, ModelTrainer                           *)
(*   src/word2vec_model.py : PlayerEmbedding                               *)
(*                                                                         *)
(* Python lists / numpy rows are TLA+ sequences (1-based); the row indices *)
(* the code manipulates (match_i, index_list) keep their 0-based values,   *)
(* so row match_i of a matrix m is m[match_i + 1].                         *)
(* Real numbers are exact fractions <<num, den>>; den = 0 stands for the   *)
(* nan / inf numpy yields on a division by zero.                           *)
(***************************************************************************)
EXTENDS Integers, Sequences, FiniteSets, TLC

\* Python's None for an attribute that otherwise holds a list, matrix or pair:
\* the code never assigns such an attribute an empty value on a path that
\* continues (np.stack of an empty list raises), except emb_matrix of an
\* empty table, which nothing reads.
None == <<>>

\* ------------------------------------------------------------------------
\* Bounds of the model (inputs only; no program constant)
\* ------------------------------------------------------------------------
MaxRows == 3
MaxVecSize == 1
MaxColSize == 120
MaxVecLen == 3
MaxAbsVal == 2
MaxEpochs == 27

\* ------------------------------------------------------------------------
\* State
\* ------------------------------------------------------------------------
\* ModelTrainer: construction (define_learn_data, split_data, Model) and the
\* first forward pass
VARIABLES
    pc,                 \* position of the ModelTrainer constructor / first forward
    DATA_MATRIX,        \* the loaded table: sequence of rows
    RESULT,             \* the label column
    cat_categories,     \* per categorical field: the fitted categories (sorted distinct values)
    emb_matrix,
    numeric_matrix,
    categorical_embedding_sizes,
    ratio,              \* split_data's argument, <<num, den>>
    index_list,         \* split_data local
    train_index_list,   \* split_data local
    train_rows,         \* the match_i values the loop routed to the train bucket
    test_rows,          \* the match_i values the loop routed to the test bucket
    cat_train, cat_test, num_train, num_test, result_train, result_test,
    all_embeddings      \* Model.all_embeddings: per field <<num_embeddings, dim>>

trainerVars == <<pc, DATA_MATRIX, RESULT, cat_categories, emb_matrix, numeric_matrix,
                 categorical_embedding_sizes, ratio, index_list, train_index_list,
                 train_rows, test_rows, cat_train, cat_test, num_train, num_test,
                 result_train, result_test, all_embeddings>>

\* PlayerEmbedding: the stateful operations
VARIABLES
    MODEL,              \* None, or [wv : player -> vector, vector_size : Nat]
    NORMALIZED_VECTORS, \* None, or player -> vector of fractions
    VEC_SIZE,
    files,              \* the saved models on disk: model name -> None or a model
    op,                 \* the operation called last
    arg,                \* its argument
    ret                 \* what it returned: [kind, val]

w2vVars == <<MODEL, NORMALIZED_VECTORS, VEC_SIZE, files, op, arg, ret>>

\* the embedding-size computation of define_learn_data on its own
VARIABLES
    column_size,        \* col_size: a categorical column's number of categories
    emb_size            \* None, or the pair computed for it

embVars == <<column_size, emb_size>>

\* PlayerEmbedding.normalize_vector
VARIABLES
    data_vector,        \* the argument
    normalized          \* None, or the returned vector of fractions

normVars == <<data_vector, normalized>>

\* PlayerEmbedding.convert_to_rgb
VARIABLES
    rgb_arg,            \* vec, the argument: a vector of fractions in [0, 1]
    rgb_vec             \* None, or the returned matrix

rgbVars == <<rgb_arg, rgb_vec>>

\* ModelTrainer.train_model
VARIABLES
    tpc,                \* position in train_model
    epochs,             \* its argument
    epoch,              \* i, the loop variable (after line 137: the epoch number)
    next_item,          \* the next value range(epochs) yields
    params,             \* the network parameters: the number of optimizer steps that made them
    y_pred,             \* the parameters the last forward pass read
    single_loss,        \* the parameters the current loss was computed from
    aggregated_losses,
    grads,              \* <<"none">>, <<"zero">>, or <<"grad">> \o the loss backpropagated
    printed,            \* the lines written by print
    epoch_calls         \* the calls made so far in the current epoch

loopVars == <<tpc, epochs, epoch, next_item, params, y_pred, single_loss,
              aggregated_losses, grads, printed, epoch_calls>>

vars == <<trainerVars, w2vVars, embVars, normVars, rgbVars, loopVars>>

notTrainerVars == <<w2vVars, embVars, normVars, rgbVars, loopVars>>
notW2vVars == <<trainerVars, embVars, normVars, rgbVars, loopVars>>
notEmbVars == <<trainerVars, w2vVars, normVars, rgbVars, loopVars>>
notNormVars == <<trainerVars, w2vVars, embVars, rgbVars, loopVars>>
notRgbVars == <<trainerVars, w2vVars, embVars, normVars, loopVars>>
notLoopVars == <<trainerVars, w2vVars, embVars, normVars, rgbVars>>

\* ------------------------------------------------------------------------
\* Generic helpers
\* ------------------------------------------------------------------------
Min2(a, b) == IF a < b THEN a ELSE b

Abs(x) == IF x < 0 THEN -x ELSE x

SeqsUpTo(S, n) == UNION {[1..k -> S] : k \in 0..n}

RangeSeq(n) == [i \in 1..n |-> i - 1]

\* ------------------------------------------------------------------------
\* ModelTrainer (src/numeric_model.py)
\* ------------------------------------------------------------------------
\* The categorical fields the model keeps (the first of the 13 of the source).
CATEGORIES == <<"League">>

\* Values a categorical cell, a numeric cell and the label take in the loaded CSV.
RawVals == {0, 1}
NumVals == {0, 1}
Labels == {0, 1, 2}

\* Ratios split_data is applied to; 1/5 is its default 0.2.  For these ratios
\* and every row count below 8 the double-precision int((1-ratio)*n) of the
\* source equals the exact integer computation of TrainMatches.
Ratios == {<<1, 5>>, <<1, 2>>}

Rows == [cat : [1..Len(CATEGORIES) -> RawVals], num : NumVals, Result : Labels]

Column(table, f) == [r \in 1..Len(table) |-> table[r].cat[f]]

\* pandas .astype('category'): the categories are the distinct values, sorted.
DistinctValues(col) == {col[r] : r \in 1..Len(col)}

RECURSIVE SortedSeq(_)
SortedSeq(S) ==
    IF S = {} THEN <<>>
    ELSE LET m == CHOOSE x \in S : \A y \in S : x <= y
         IN <<m>> \o SortedSeq(S \ {m})

Categories(col) == SortedSeq(DistinctValues(col))

\* the code (dense index, 0-based) the fitted encoding gives a value
CodeOf(cats, v) == (CHOOSE i \in 1..Len(cats) : cats[i] = v) - 1

\* line 96: min(50, (col_size + 1) // 2)
EmbDimHalfDown(col_size) == Min2(50, col_size \div 2)
EmbDim(col_size) == Min2(50, (col_size + 1) \div 2)

\* lines 79-97
DefineLearnData ==
    /\ UNCHANGED notTrainerVars
    /\ pc = "loaded"
    /\ emb_matrix' = [r \in 1..Len(DATA_MATRIX) |-> DATA_MATRIX[r].cat]
    /\ numeric_matrix' = [r \in 1..Len(DATA_MATRIX) |-> <<DATA_MATRIX[r].num>>]
    /\ cat_categories' = [f \in 1..Len(CATEGORIES) |-> Categories(Column(DATA_MATRIX, f))]
    /\ categorical_embedding_sizes' =
           [f \in 1..Len(CATEGORIES) |->
               LET col_size == Len(Categories(Column(DATA_MATRIX, f)))
               IN <<col_size, EmbDim(col_size)>>]
    /\ pc' = "defined"
    /\ UNCHANGED <<DATA_MATRIX, RESULT, ratio, index_list, train_index_list,
                   train_rows, test_rows, cat_train, cat_test, num_train, num_test,
                   result_train, result_test, all_embeddings>>

\* line 101: int((1 - ratio) * total_matches), ratio = rt[1] / rt[2]
TrainMatchesCeil(rt, total_matches) ==
    ((rt[2] - rt[1]) * total_matches + rt[2] - 1) \div rt[2]
TrainMatches(rt, total_matches) == ((rt[2] - rt[1]) * total_matches) \div rt[2]

\* line 104: index_list[:train_matches]
SliceTo(lst, n) == SubSeq(lst, 1, Min2(n, Len(lst)))

\* random.shuffle(lst): any permutation of lst
Shuffles(lst) ==
    {p \in [1..Len(lst) -> {lst[i] : i \in 1..Len(lst)}] :
        \A i, j \in 1..Len(lst) : i # j => p[i] # p[j]}

\* lines 104-105: the slice is a copy, so shuffling index_list in place
\* leaves train_index_list as it was.
TrainIndexAfterShuffleView(til, shuffled) == SubSeq(shuffled, 1, Len(til))
TrainIndexAfterShuffle(til, shuffled) == til

\* lines 100-105: up to and including the shuffle
SplitBegin ==
    /\ UNCHANGED notTrainerVars
    /\ pc = "defined"
    /\ \E rt \in Ratios :
         LET total_matches == Len(DATA_MATRIX)
             train_matches == TrainMatches(rt, total_matches)
             il == RangeSeq(total_matches)
             til == SliceTo(il, train_matches)
         IN /\ ratio' = rt
            /\ \E shuffled \in Shuffles(il) :
                 /\ index_list' = shuffled
                 /\ train_index_list' = TrainIndexAfterShuffle(til, shuffled)
    /\ pc' = "shuffled"
    /\ UNCHANGED <<DATA_MATRIX, RESULT, cat_categories, emb_matrix, numeric_matrix,
                   categorical_embedding_sizes, train_rows, test_rows, cat_train,
                   cat_test, num_train, num_test, result_train, result_test,
                   all_embeddings>>

\* line 115: match_i in train_index_list
InTrain(match_i, til) == \E k \in 1..Len(til) : til[k] = match_i

\* lines 114-122: the match_i values appended to the train (test) bucket, in order
RECURSIVE LoopBucket(_, _, _, _)
LoopBucket(match_i, total_matches, til, wantTrain) ==
    IF match_i >= total_matches THEN <<>>
    ELSE (IF InTrain(match_i, til) = wantTrain THEN <<match_i>> ELSE <<>>)
         \o LoopBucket(match_i + 1, total_matches, til, wantTrain)

\* lines 107-129: the loop and the stacking; np.stack of an empty list raises.
\* train_rows and test_rows record the loop's routing of match_i.
SplitEnd ==
    /\ UNCHANGED notTrainerVars
    /\ pc = "shuffled"
    /\ LET total_matches == Len(DATA_MATRIX)
           tr == LoopBucket(0, total_matches, train_index_list, TRUE)
           te == LoopBucket(0, total_matches, train_index_list, FALSE)
       IN /\ train_rows' = tr
          /\ test_rows' = te
          /\ IF tr = <<>>
             THEN /\ pc' = "ValueError"
                  /\ UNCHANGED <<cat_train, cat_test, num_train, num_test,
                                 result_train, result_test>>
             ELSE IF te = <<>>
             THEN /\ pc' = "ValueError"
                  /\ cat_train' = [k \in 1..Len(tr) |-> emb_matrix[tr[k] + 1]]
                  /\ UNCHANGED <<cat_test, num_train, num_test,
                                 result_train, result_test>>
             ELSE /\ pc' = "split"
                  /\ cat_train' = [k \in 1..Len(tr) |-> emb_matrix[tr[k] + 1]]
                  /\ cat_test' = [k \in 1..Len(te) |-> emb_matrix[te[k] + 1]]
                  /\ num_train' = [k \in 1..Len(tr) |-> numeric_matrix[tr[k] + 1]]
                  /\ num_test' = [k \in 1..Len(te) |-> numeric_matrix[te[k] + 1]]
                  /\ result_train' = [k \in 1..Len(tr) |-> RESULT[tr[k] + 1]]
                  /\ result_test' = [k \in 1..Len(te) |-> RESULT[te[k] + 1]]
    /\ UNCHANGED <<DATA_MATRIX, RESULT, cat_categories, emb_matrix, numeric_matrix,
                   categorical_embedding_sizes, ratio, index_list, train_index_list,
                   all_embeddings>>

\* line 74 with lines 13-15: one nn.Embedding(ni, nf) per categorical field
BuildModel ==
    /\ UNCHANGED notTrainerVars
    /\ pc = "split"
    /\ all_embeddings' = categorical_embedding_sizes
    /\ pc' = "built"
    /\ index_list' = None          \* split_data has returned: its locals are gone
    /\ train_index_list' = None
    /\ UNCHANGED <<DATA_MATRIX, RESULT, cat_categories, emb_matrix, numeric_matrix,
                   categorical_embedding_sizes, ratio,
                   train_rows, test_rows, cat_train, cat_test, num_train, num_test,
                   result_train, result_test>>

\* nn.Embedding(ni, nf)(idx) raises IndexError unless 0 <= idx < ni
LookupInRange(idx, ni) == 0 <= idx /\ idx < ni

\* lines 34-44 on (cat_train, num_train), as train_model line 138 calls it:
\* the embedding lookups come first; BatchNorm1d in training mode then
\* rejects a batch of one row.
Forward ==
    /\ UNCHANGED notTrainerVars
    /\ pc = "built"
    /\ pc' = IF \E r \in 1..Len(cat_train), f \in 1..Len(all_embeddings) :
                   ~LookupInRange(cat_train[r][f], all_embeddings[f][1])
             THEN "IndexError"
             ELSE IF Len(num_train) = 1 THEN "ValueError"
             ELSE "forwarded"
    /\ UNCHANGED <<DATA_MATRIX, RESULT, cat_categories, emb_matrix, numeric_matrix,
                   categorical_embedding_sizes, ratio, index_list, train_index_list,
                   train_rows, test_rows, cat_train, cat_test, num_train, num_test,
                   result_train, result_test, all_embeddings>>

\* lines 66-69: the table is read and its Result column taken
InitTrainer ==
    /\ pc = "loaded"
    /\ DATA_MATRIX \in SeqsUpTo(Rows, MaxRows)
    /\ RESULT = [r \in 1..Len(DATA_MATRIX) |-> DATA_MATRIX[r].Result]
    /\ cat_categories = None
    /\ emb_matrix = None
    /\ numeric_matrix = None
    /\ categorical_embedding_sizes = None
    /\ ratio = None
    /\ index_list = None
    /\ train_index_list = None
    /\ train_rows = None
    /\ test_rows = None
    /\ cat_train = None
    /\ cat_test = None
    /\ num_train = None
    /\ num_test = None
    /\ result_train = None
    /\ result_test = None
    /\ all_embeddings = None

NextTrainer ==
    \/ DefineLearnData
    \/ SplitBegin
    \/ SplitEnd
    \/ BuildModel
    \/ Forward


\* ------------------------------------------------------------------------
\* PlayerEmbedding (src/word2vec_model.py): the stateful operations
\* ------------------------------------------------------------------------
\* player tokens, model names, and the values a vector element takes
Players == {"a", "b"}
ModelNames == {"w2v"}
VecVals == {-1, 0, 1}

\* a trained model of dimensionality n: some non-empty vocabulary, any vectors
ModelsOfSize(n) ==
    UNION {[wv : [D -> [1..n -> VecVals]], vector_size : {n}] :
              D \in (SUBSET Players) \ {{}}}

Models == UNION {ModelsOfSize(n) : n \in 1..MaxVecSize}

Returned(kind, val) == [kind |-> kind, val |-> val]

\* lines 19-28.  The assembler or Word2Vec may raise before MODEL is set
\* (missing league data, empty corpus); otherwise training yields some model
\* of the requested size, which is saved under model_name.
W2vTrain(model_name, vec_size) ==
    /\ UNCHANGED notW2vVars
    /\ op' = "w2v_train"
    /\ arg' = model_name
    /\ \/ /\ ret' = Returned("raised", 0)
          /\ UNCHANGED <<MODEL, VEC_SIZE, files, NORMALIZED_VECTORS>>
       \/ \E m \in ModelsOfSize(vec_size) :
            /\ MODEL' = m
            /\ VEC_SIZE' = vec_size
            /\ files' = [files EXCEPT ![model_name] = m]
            /\ ret' = Returned("None", 0)
            /\ UNCHANGED NORMALIZED_VECTORS

\* lines 30-32, with a cache invalidation the source does not have
W2vLoadInvalidating(model_name) ==
    /\ UNCHANGED notW2vVars
    /\ op' = "w2v_load"
    /\ arg' = model_name
    /\ IF files[model_name] = None
       THEN /\ ret' = Returned("raised", 0)
            /\ UNCHANGED <<MODEL, VEC_SIZE, files, NORMALIZED_VECTORS>>
       ELSE /\ MODEL' = files[model_name]
            /\ VEC_SIZE' = files[model_name].vector_size
            /\ NORMALIZED_VECTORS' = None
            /\ ret' = Returned("None", 0)
            /\ UNCHANGED files

\* lines 30-32; Word2Vec.load raises when the file is absent
W2vLoad(model_name) ==
    /\ UNCHANGED notW2vVars
    /\ op' = "w2v_load"
    /\ arg' = model_name
    /\ IF files[model_name] = None
       THEN /\ ret' = Returned("raised", 0)
            /\ UNCHANGED <<MODEL, VEC_SIZE, files, NORMALIZED_VECTORS>>
       ELSE /\ MODEL' = files[model_name]
            /\ VEC_SIZE' = files[model_name].vector_size
            /\ ret' = Returned("None", 0)
            /\ UNCHANGED <<files, NORMALIZED_VECTORS>>

\* line 38: MODEL.wv.get_vector(player_name); KeyError for an unknown token
WvGetVector(model, player_name) ==
    IF player_name \in DOMAIN model.wv
    THEN Returned("vector", model.wv[player_name])
    ELSE Returned("KeyError", 0)

\* lines 34-38 without the guard of line 35
PlayerVectorUnguarded(model, player_name) ==
    IF model = None THEN Returned("AttributeError", 0)
    ELSE WvGetVector(model, player_name)

\* lines 34-38: what get_player_vector returns
PlayerVector(model, player_name) ==
    IF model = None THEN Returned("int", 0)
    ELSE WvGetVector(model, player_name)

GetPlayerVector(player_name) ==
    /\ UNCHANGED notW2vVars
    /\ op' = "get_player_vector"
    /\ arg' = player_name
    /\ ret' = PlayerVector(MODEL, player_name)
    /\ UNCHANGED <<MODEL, VEC_SIZE, files, NORMALIZED_VECTORS>>

\* lines 40-44: the dict get_all_vectors builds (every key is in the vocabulary)
AllVectors(model) ==
    [player_name \in DOMAIN model.wv |-> PlayerVector(model, player_name).val]

\* lines 40-44; self.MODEL.wv raises AttributeError while MODEL is None
GetAllVectors ==
    /\ UNCHANGED notW2vVars
    /\ op' = "get_all_vectors"
    /\ arg' = ""
    /\ ret' = IF MODEL = None THEN Returned("AttributeError", 0)
              ELSE Returned("dict", AllVectors(MODEL))
    /\ UNCHANGED <<MODEL, VEC_SIZE, files, NORMALIZED_VECTORS>>

\* np.min / np.max of a vector
RECURSIVE VecMin(_)
VecMin(vec) ==
    IF Len(vec) = 1 THEN vec[1]
    ELSE LET m == VecMin(Tail(vec)) IN IF vec[1] < m THEN vec[1] ELSE m

RECURSIVE VecMax(_)
VecMax(vec) ==
    IF Len(vec) = 1 THEN vec[1]
    ELSE LET m == VecMax(Tail(vec)) IN IF vec[1] > m THEN vec[1] ELSE m

\* lines 49-57: the running minimum, started from start, over the vectors
\* that remain (keys: the dict keys not yet visited)
RECURSIVE RunningMin(_, _, _)
RunningMin(all_vectors, keys, min_value) ==
    IF keys = {} THEN min_value
    ELSE LET key == CHOOSE k \in keys : TRUE
             min_v == VecMin(all_vectors[key])
         IN RunningMin(all_vectors, keys \ {key},
                       IF min_v < min_value THEN min_v ELSE min_value)

RECURSIVE RunningMax(_, _, _)
RunningMax(all_vectors, keys, max_value) ==
    IF keys = {} THEN max_value
    ELSE LET key == CHOOSE k \in keys : TRUE
             max_v == VecMax(all_vectors[key])
         IN RunningMax(all_vectors, keys \ {key},
                       IF max_v > max_value THEN max_v ELSE max_value)

\* line 61 for one vector: (vec + abs(min_value)) / (max_value + abs(min_value)),
\* each element the fraction <<numerator, denominator>>; numpy yields nan or
\* inf (denominator 0 here) instead of raising when the denominator is 0
Scale(vec, min_value, max_value) ==
    [i \in 1..Len(vec) |-> <<vec[i] + Abs(min_value), max_value + Abs(min_value)>>]

\* lines 46-64 with the running min and max started from the first vector
NormalizedFromFirst(all_vectors) ==
    LET first == CHOOSE k \in DOMAIN all_vectors : TRUE
        min_value == RunningMin(all_vectors, DOMAIN all_vectors, VecMin(all_vectors[first]))
        max_value == RunningMax(all_vectors, DOMAIN all_vectors, VecMax(all_vectors[first]))
    IN [key \in DOMAIN all_vectors |-> Scale(all_vectors[key], min_value, max_value)]

\* lines 49-61: the normalized dict
Normalized(all_vectors) ==
    LET min_value == RunningMin(all_vectors, DOMAIN all_vectors, 0)
        max_value == RunningMax(all_vectors, DOMAIN all_vectors, 0)
    IN [key \in DOMAIN all_vectors |-> Scale(all_vectors[key], min_value, max_value)]

\* lines 46-64; get_all_vectors raises while MODEL is None
NormalizeAllVectors ==
    /\ UNCHANGED notW2vVars
    /\ op' = "normalize_all_vectors"
    /\ arg' = ""
    /\ IF MODEL = None
       THEN /\ ret' = Returned("AttributeError", 0)
            /\ UNCHANGED NORMALIZED_VECTORS
       ELSE /\ NORMALIZED_VECTORS' = Normalized(AllVectors(MODEL))
            /\ ret' = Returned("dict", Normalized(AllVectors(MODEL)))
    /\ UNCHANGED <<MODEL, VEC_SIZE, files>>

\* lines 15-17: the class attributes; the disk holds any saved models
InitW2v ==
    /\ MODEL = None
    /\ NORMALIZED_VECTORS = None
    /\ VEC_SIZE = 0
    /\ files \in [ModelNames -> Models \cup {None}]
    /\ op = "init"
    /\ arg = ""
    /\ ret = Returned("None", 0)

NextW2v ==
    \/ \E model_name \in ModelNames, vec_size \in 1..MaxVecSize :
          W2vTrain(model_name, vec_size)
    \/ \E model_name \in ModelNames : W2vLoad(model_name)
    \/ \E player_name \in Players : GetPlayerVector(player_name)
    \/ GetAllVectors
    \/ NormalizeAllVectors

\* ------------------------------------------------------------------------
\* The embedding-size pair of define_learn_data, for any column size
\* ------------------------------------------------------------------------
\* lines 95-97 for one column
ComputeEmbSize ==
    /\ UNCHANGED notEmbVars
    /\ emb_size = None
    /\ emb_size' = <<column_size, EmbDim(column_size)>>
    /\ UNCHANGED column_size

InitEmb ==
    /\ column_size \in 0..MaxColSize
    /\ emb_size = None

NextEmb == ComputeEmbSize

\* ------------------------------------------------------------------------
\* PlayerEmbedding.normalize_vector (src/word2vec_model.py lines 66-70)
\* ------------------------------------------------------------------------
\* line 70: (data_vector + abs(min_v)) / (max_v + abs(min_v)), each element
\* the fraction <<numerator, denominator>> (denominator 0: numpy's nan / inf)
NormalizeVector(v) ==
    LET min_v == VecMin(v)
        max_v == VecMax(v)
    IN [k \in 1..Len(v) |-> <<v[k] + Abs(min_v), max_v + Abs(min_v)>>]

CallNormalizeVector ==
    /\ UNCHANGED notNormVars
    /\ normalized = None
    /\ normalized' = NormalizeVector(data_vector)
    /\ UNCHANGED data_vector

InitNorm ==
    /\ data_vector \in SeqsUpTo((-MaxAbsVal)..MaxAbsVal, MaxVecLen) \ {<<>>}
    /\ normalized = None

NextNorm == CallNormalizeVector

\* ------------------------------------------------------------------------
\* PlayerEmbedding.convert_to_rgb (src/word2vec_model.py lines 72-95)
\* ------------------------------------------------------------------------
\* the [0, 1] values the argument is drawn from: binary fractions, so that
\* the double product of line 76 is the exact one
UnitVals == {<<0, 1>>, <<1, 65536>>, <<1, 4096>>, <<1, 2>>, <<1, 1>>}

HexChars == <<"0", "1", "2", "3", "4", "5", "6", "7",
              "8", "9", "a", "b", "c", "d", "e", "f">>

\* lines 76-77: int(v * 16777215)
ScaleToInt(v) == (v[1] * 16777215) \div v[2]

\* lines 78-80: hex(n) without its "0x", as a string of characters
RECURSIVE Hex(_)
Hex(n) ==
    IF n < 16 THEN <<HexChars[n + 1]>>
    ELSE Hex(n \div 16) \o <<HexChars[(n % 16) + 1]>>

\* lines 83-87: left-padding with '0' to six characters
Pad6(dim) ==
    IF Len(dim) < 6 THEN [k \in 1..(6 - Len(dim)) |-> "0"] \o dim ELSE dim

\* int("0x" + str, 16)
RECURSIVE ParseHex(_)
ParseHex(str) ==
    IF str = <<>> THEN 0
    ELSE LET last == str[Len(str)]
             digit == (CHOOSE k \in 1..16 : HexChars[k] = last) - 1
         IN 16 * ParseHex(SubSeq(str, 1, Len(str) - 1)) + digit

\* list.index(x): the first position (0-based) holding x
ListIndex(lst, x) == (CHOOSE k \in 1..Len(lst) : lst[k] = x /\ \A j \in 1..(k - 1) : lst[j] # x) - 1

\* lines 82-93 from position k on: each dim writes its colour to the row
\* list_vec.index(dim) names
RECURSIVE RgbLoop(_, _, _)
RgbLoop(list_vec, k, rgb) ==
    IF k > Len(list_vec) THEN rgb
    ELSE LET dim == list_vec[k]
             padded == Pad6(dim)
             red == ParseHex(SubSeq(padded, 1, 2))
             green == ParseHex(SubSeq(padded, 3, 4))
             blue == ParseHex(SubSeq(padded, 5, Len(padded)))
             row == ListIndex(list_vec, dim) + 1
         IN RgbLoop(list_vec, k + 1, [rgb EXCEPT ![row] = <<red, green, blue>>])

\* lines 73-95
ConvertToRgb(v) ==
    LET list_vec == [k \in 1..Len(v) |-> Hex(ScaleToInt(v[k]))]
        zeros == [k \in 1..Len(v) |-> <<0, 0, 0>>]
    IN RgbLoop(list_vec, 1, zeros)

CallConvertToRgb ==
    /\ UNCHANGED notRgbVars
    /\ rgb_vec = None
    /\ rgb_vec' = ConvertToRgb(rgb_arg)
    /\ UNCHANGED rgb_arg

InitRgb ==
    /\ rgb_arg \in SeqsUpTo(UnitVals, MaxVecLen) \ {<<>>}
    /\ rgb_vec = None

NextRgb == CallConvertToRgb

\* ------------------------------------------------------------------------
\* ModelTrainer.train_model (src/numeric_model.py lines 131-153)
\* ------------------------------------------------------------------------
\* A tensor computed from the network is modelled by the parameters it was
\* computed from: <<n>> for the parameters after n optimizer steps.  <<>> is
\* the dict() single_loss starts as.

\* line 136: range(epochs) has an item left
RangeHasNextInclusive(k, n) == k <= n
RangeHasNext(k, n) == k < n

\* line 142
PrintsEpoch(e) == e % 25 = 1

\* lines 133-134
TrainEnter ==
    /\ UNCHANGED notLoopVars
    /\ tpc = "call"
    /\ aggregated_losses' = <<>>
    /\ single_loss' = <<>>
    /\ next_item' = 0
    /\ tpc' = "for"
    /\ UNCHANGED <<epochs, epoch, params, y_pred, grads, printed, epoch_calls>>

\* lines 136-137: the next item of range(epochs), incremented; or the loop ends
TrainLoopHead ==
    /\ UNCHANGED notLoopVars
    /\ tpc = "for"
    /\ IF RangeHasNext(next_item, epochs)
       THEN /\ epoch' = next_item + 1
            /\ next_item' = next_item + 1
            /\ epoch_calls' = <<>>
            /\ tpc' = "forward"
       ELSE /\ tpc' = "after_loop"
            /\ UNCHANGED <<epoch, next_item, epoch_calls>>
    /\ UNCHANGED <<epochs, params, y_pred, single_loss, aggregated_losses, grads, printed>>

\* line 138
TrainForward ==
    /\ UNCHANGED notLoopVars
    /\ tpc = "forward"
    /\ y_pred' = <<params>>
    /\ epoch_calls' = Append(epoch_calls, "forward")
    /\ tpc' = "loss"
    /\ UNCHANGED <<epochs, epoch, next_item, params, single_loss, aggregated_losses,
                   grads, printed>>

\* line 139
TrainLoss ==
    /\ UNCHANGED notLoopVars
    /\ tpc = "loss"
    /\ single_loss' = y_pred
    /\ epoch_calls' = Append(epoch_calls, "loss")
    /\ tpc' = "record"
    /\ UNCHANGED <<epochs, epoch, next_item, params, y_pred, aggregated_losses,
                   grads, printed>>

\* line 140
TrainRecord ==
    /\ UNCHANGED notLoopVars
    /\ tpc = "record"
    /\ aggregated_losses' = Append(aggregated_losses, single_loss)
    /\ epoch_calls' = Append(epoch_calls, "record")
    /\ tpc' = "print"
    /\ UNCHANGED <<epochs, epoch, next_item, params, y_pred, single_loss, grads, printed>>

\* lines 142-143
TrainPrint ==
    /\ UNCHANGED notLoopVars
    /\ tpc = "print"
    /\ printed' = IF PrintsEpoch(epoch)
                  THEN Append(printed, [line |-> "epoch", n |-> epoch, loss |-> single_loss])
                  ELSE printed
    /\ tpc' = "zero_grad"
    /\ UNCHANGED <<epochs, epoch, next_item, params, y_pred, single_loss,
                   aggregated_losses, grads, epoch_calls>>

\* line 145
TrainZeroGrad ==
    /\ UNCHANGED notLoopVars
    /\ tpc = "zero_grad"
    /\ grads' = <<"zero">>
    /\ epoch_calls' = Append(epoch_calls, "zero_grad")
    /\ tpc' = "backward"
    /\ UNCHANGED <<epochs, epoch, next_item, params, y_pred, single_loss,
                   aggregated_losses, printed>>

\* line 146
TrainBackward ==
    /\ UNCHANGED notLoopVars
    /\ tpc = "backward"
    /\ grads' = <<"grad">> \o single_loss
    /\ epoch_calls' = Append(epoch_calls, "backward")
    /\ tpc' = "step"
    /\ UNCHANGED <<epochs, epoch, next_item, params, y_pred, single_loss,
                   aggregated_losses, printed>>

\* line 147
TrainStep ==
    /\ UNCHANGED notLoopVars
    /\ tpc = "step"
    /\ params' = params + 1
    /\ epoch_calls' = Append(epoch_calls, "step")
    /\ tpc' = "for"
    /\ UNCHANGED <<epochs, epoch, next_item, y_pred, single_loss, aggregated_losses,
                   grads, printed>>

\* line 149: single_loss.item(); a dict has no item
TrainFinalPrint ==
    /\ UNCHANGED notLoopVars
    /\ tpc = "after_loop"
    /\ IF single_loss = <<>>
       THEN /\ tpc' = "AttributeError"
            /\ UNCHANGED printed
       ELSE /\ printed' = Append(printed, [line |-> "final", n |-> epochs, loss |-> single_loss])
            /\ tpc' = "plot"
    /\ UNCHANGED <<epochs, epoch, next_item, params, y_pred, single_loss,
                   aggregated_losses, grads, epoch_calls>>

\* lines 150-153
TrainPlot ==
    /\ UNCHANGED notLoopVars
    /\ tpc = "plot"
    /\ tpc' = "done"
    /\ UNCHANGED <<epochs, epoch, next_item, params, y_pred, single_loss,
                   aggregated_losses, grads, printed, epoch_calls>>

\* train_model(epochs) is called on a freshly constructed trainer
InitLoop ==
    /\ tpc = "call"
    /\ epochs \in 0..MaxEpochs
    /\ epoch = 0
    /\ next_item = 0
    /\ params = 0
    /\ y_pred = <<>>
    /\ single_loss = <<>>
    /\ aggregated_losses = <<>>
    /\ grads = <<"none">>
    /\ printed = <<>>
    /\ epoch_calls = <<>>

NextLoop ==
    \/ TrainEnter
    \/ TrainLoopHead
    \/ TrainForward
    \/ TrainLoss
    \/ TrainRecord
    \/ TrainPrint
    \/ TrainZeroGrad
    \/ TrainBackward
    \/ TrainStep
    \/ TrainFinalPrint
    \/ TrainPlot

\* ------------------------------------------------------------------------
\* Specifications: one per component, the other components' state at rest
\* ------------------------------------------------------------------------
TrainerIdle ==
    /\ pc = "idle"
    /\ DATA_MATRIX = None /\ RESULT = None /\ cat_categories = None
    /\ emb_matrix = None /\ numeric_matrix = None
    /\ categorical_embedding_sizes = None /\ ratio = None
    /\ index_list = None /\ train_index_list = None
    /\ train_rows = None /\ test_rows = None
    /\ cat_train = None /\ cat_test = None /\ num_train = None /\ num_test = None
    /\ result_train = None /\ result_test = None /\ all_embeddings = None

W2vIdle ==
    /\ MODEL = None /\ NORMALIZED_VECTORS = None /\ VEC_SIZE = 0
    /\ files = [n \in ModelNames |-> None]
    /\ op = "init" /\ arg = "" /\ ret = Returned("None", 0)

EmbIdle == column_size = 0 /\ emb_size = None

NormIdle == data_vector = None /\ normalized = None

RgbIdle == rgb_arg = None /\ rgb_vec = None

LoopIdle ==
    /\ tpc = "idle" /\ epochs = 0 /\ epoch = 0 /\ next_item = 0 /\ params = 0
    /\ y_pred = <<>> /\ single_loss = <<>> /\ aggregated_losses = <<>>
    /\ grads = <<"none">> /\ printed = <<>> /\ epoch_calls = <<>>

InitSpecTrainer ==
    InitTrainer /\ W2vIdle /\ EmbIdle /\ NormIdle /\ RgbIdle /\ LoopIdle

SpecTrainer == InitSpecTrainer /\ [][NextTrainer]_vars

InitSpecW2v ==
    InitW2v /\ TrainerIdle /\ EmbIdle /\ NormIdle /\ RgbIdle /\ LoopIdle

SpecW2v == InitSpecW2v /\ [][NextW2v]_vars

InitSpecEmb ==
    InitEmb /\ TrainerIdle /\ W2vIdle /\ NormIdle /\ RgbIdle /\ LoopIdle

SpecEmb == InitSpecEmb /\ [][NextEmb]_vars

InitSpecNorm ==
    InitNorm /\ TrainerIdle /\ W2vIdle /\ EmbIdle /\ RgbIdle /\ LoopIdle

SpecNorm == InitSpecNorm /\ [][NextNorm]_vars

InitSpecRgb ==
    InitRgb /\ TrainerIdle /\ W2vIdle /\ EmbIdle /\ NormIdle /\ LoopIdle

SpecRgb == InitSpecRgb /\ [][NextRgb]_vars

InitSpecLoop ==
    InitLoop /\ TrainerIdle /\ W2vIdle /\ EmbIdle /\ NormIdle /\ RgbIdle

\* train_model is one sequential call: the interpreter runs each next
\* statement, so some step is always eventually taken while one is enabled
SpecLoop == InitSpecLoop /\ [][NextLoop]_vars /\ WF_vars(NextLoop)

\* ------------------------------------------------------------------------
\* Claims about ModelTrainer
\* ------------------------------------------------------------------------
\* split_data ran to its last line (line 129), so both buckets are non-empty
SplitDone == result_test # None

\* number of positions of seq s holding x
Count(s, x) == Cardinality({k \in 1..Len(s) : s[k] = x})

\* the rows of a bucket as (categorical row, numeric row, label) triples
Triples(c, n, r) == [k \in 1..Len(c) |-> <<c[k], n[k], r[k]>>]

\* C1: when split_data completes with both buckets non-empty, the train
\* bucket holds exactly floor((1 - ratio) * N) rows, the test bucket the
\* other N - floor((1 - ratio) * N), every row index 0..N-1 was routed to
\* exactly one bucket, and a row's categorical row, numeric row and label
\* sit in the same bucket at the same position (so the two buckets together
\* hold every row of the table exactly as often as the table does).
C1_SplitPartitions ==
    SplitDone =>
        LET N == Len(DATA_MATRIX)
            T == Len(cat_train)
            table == Triples(emb_matrix, numeric_matrix, RESULT)
            train == Triples(cat_train, num_train, result_train)
            test == Triples(cat_test, num_test, result_test)
        IN /\ T * ratio[2] <= (ratio[2] - ratio[1]) * N
           /\ (ratio[2] - ratio[1]) * N < (T + 1) * ratio[2]
           /\ Len(cat_test) = N - T
           /\ Len(num_train) = T /\ Len(result_train) = T /\ Len(train_rows) = T
           /\ Len(num_test) = N - T /\ Len(result_test) = N - T
           /\ Len(test_rows) = N - T
           /\ \A i \in 0..(N - 1) : Count(train_rows, i) + Count(test_rows, i) = 1
           /\ \A k \in 1..T : train[k] = table[train_rows[k] + 1]
           /\ \A k \in 1..(N - T) : test[k] = table[test_rows[k] + 1]
           /\ \A x \in {table[i] : i \in 1..N} :
                  Count(train, x) + Count(test, x) = Count(table, x)

\* a default-ratio split of three rows, two of them equal, has completed
C1_Witness ==
    /\ SplitDone
    /\ ratio = <<1, 5>>
    /\ Len(DATA_MATRIX) = 3
    /\ DATA_MATRIX[1] = DATA_MATRIX[3]
    /\ DATA_MATRIX[1] # DATA_MATRIX[2]
    /\ Len(cat_train) = 2
    /\ Len(cat_test) = 1

\* C2: whatever permutation random.shuffle left in index_list, the train
\* bucket is rows 0..train_matches-1 and the test bucket rows
\* train_matches..N-1, each in original order.
C2_SplitIgnoresShuffle ==
    SplitDone =>
        LET N == Len(DATA_MATRIX)
            T == Len(train_rows)
        IN /\ train_rows = [k \in 1..T |-> k - 1]
           /\ test_rows = [k \in 1..(N - T) |-> T + k - 1]
           /\ cat_train = SubSeq(emb_matrix, 1, T)
           /\ cat_test = SubSeq(emb_matrix, T + 1, N)
           /\ num_train = SubSeq(numeric_matrix, 1, T)
           /\ num_test = SubSeq(numeric_matrix, T + 1, N)
           /\ result_train = SubSeq(RESULT, 1, T)
           /\ result_test = SubSeq(RESULT, T + 1, N)

\* the shuffle reversed the index list, and the split has completed
C2_Witness ==
    /\ pc = "split"
    /\ SplitDone
    /\ Len(DATA_MATRIX) = 3
    /\ index_list = <<2, 1, 0>>
    /\ train_index_list = <<0, 1>>
    /\ emb_matrix[1] # emb_matrix[3]

\* C3: every emb_matrix[r][f] is the dense code the fitted encoding of
\* field f gives row r's value, lies in 0..cardinality_f - 1, and no
\* embedding lookup of Model.forward is out of range.
C3_EmbMatrixIsEncoded ==
    /\ pc # "IndexError"
    /\ emb_matrix # None =>
         \A r \in 1..Len(emb_matrix), f \in 1..Len(CATEGORIES) :
            /\ emb_matrix[r][f] = CodeOf(cat_categories[f], DATA_MATRIX[r].cat[f])
            /\ LookupInRange(emb_matrix[r][f], categorical_embedding_sizes[f][1])

\* ------------------------------------------------------------------------
\* Claims about the embedding size
\* ------------------------------------------------------------------------
\* C7: for every cardinality c >= 1 the embedding dimension is
\* min(50, (c + 1) // 2): 1, 1, 25, 26, 50 for c = 1, 2, 50, 51, 100, at
\* least 1, at most 50, and no smaller than the dimension of any smaller
\* cardinality.
C7_EmbeddingDimension ==
    (emb_size # None /\ column_size >= 1) =>
        LET c == emb_size[1]
            d == emb_size[2]
        IN /\ c = column_size
           /\ IF c + 1 >= 100 THEN d = 50
              ELSE 2 * d <= c + 1 /\ c + 1 < 2 * d + 2
           /\ (c = 1 => d = 1) /\ (c = 2 => d = 1) /\ (c = 50 => d = 25)
           /\ (c = 51 => d = 26) /\ (c = 100 => d = 50)
           /\ 1 <= d /\ d <= 50
           /\ \A c2 \in 1..c : EmbDim(c2) <= d

\* the pair for a column of 51 categories has been computed
C7_Witness == emb_size = <<51, 26>>

\* ------------------------------------------------------------------------
\* Claims about normalize_vector and convert_to_rgb
\* ------------------------------------------------------------------------
\* C5: for a non-degenerate vector (max + |min| is not 0) every value of
\* normalize_vector's result lies in [0, 1], the position of the minimum
\* holds 0 and the position of the maximum holds 1.  (Stated for vectors
\* whose minimum and maximum differ: in a constant vector the two positions
\* coincide and no result holds both 0 and 1 there.)
C5_NormalizeVectorUnitRange ==
    (/\ normalized # None
     /\ VecMax(data_vector) + Abs(VecMin(data_vector)) # 0
     /\ VecMin(data_vector) < VecMax(data_vector)) =>
        /\ Len(normalized) = Len(data_vector)
        /\ \A k \in 1..Len(normalized) :
              /\ normalized[k][2] > 0
              /\ 0 <= normalized[k][1]
              /\ normalized[k][1] <= normalized[k][2]
              /\ (\A j \in 1..Len(data_vector) : data_vector[k] <= data_vector[j])
                    => normalized[k][1] = 0
              /\ (\A j \in 1..Len(data_vector) : data_vector[k] >= data_vector[j])
                    => normalized[k][1] = normalized[k][2]

\* C4: for a vector of values in [0, 1], row k of convert_to_rgb's result
\* holds the red, green and blue bytes of trunc(v[k] * 16777215), each in
\* 0..255; 0.0 gives (0, 0, 0) and 1.0 gives (255, 255, 255), also when a
\* value occurs at several positions.
C4_ConvertToRgbBytes ==
    rgb_vec # None =>
        /\ Len(rgb_vec) = Len(rgb_arg)
        /\ \A k \in 1..Len(rgb_vec) :
              LET n == (rgb_arg[k][1] * 16777215) \div rgb_arg[k][2]
              IN /\ rgb_vec[k] = <<n \div 65536, (n \div 256) % 256, n % 256>>
                 /\ \A ch \in 1..3 : rgb_vec[k][ch] \in 0..255
                 /\ (rgb_arg[k] = <<0, 1>> => rgb_vec[k] = <<0, 0, 0>>)
                 /\ (rgb_arg[k] = <<1, 1>> => rgb_vec[k] = <<255, 255, 255>>)

\* ------------------------------------------------------------------------
\* Claims about PlayerEmbedding's state
\* ------------------------------------------------------------------------
\* what get_player_vector has just returned agrees with MODEL
SentinelIffNoModel ==
    op = "get_player_vector" =>
        IF MODEL = None
        THEN ret = [kind |-> "int", val |-> 0]
        ELSE /\ ret.kind # "int"
             /\ IF arg \in DOMAIN MODEL.wv
                THEN ret = [kind |-> "vector", val |-> MODEL.wv[arg]]
                ELSE ret.kind = "KeyError"

\* C6: get_player_vector returns the sentinel 0, without raising, as long as
\* no w2v_train or w2v_load has set MODEL; only those set MODEL, MODEL is
\* never unset again, and from then on get_player_vector returns the model's
\* lookup of the name instead of the sentinel.
C6_SentinelUntilModel ==
    /\ []SentinelIffNoModel
    /\ [][(MODEL # None => MODEL' # None)
          /\ ((MODEL = None /\ MODEL' # None) => op' \in {"w2v_train", "w2v_load"})]_vars

\* the sentinel was returned while a saved model was there to load
C6_Witness ==
    /\ op = "get_player_vector"
    /\ MODEL = None
    /\ ret = [kind |-> "int", val |-> 0]
    /\ files["w2v"] # None

\* C8: normalize_all_vectors scales with m = min(0, smallest element) and
\* M = max(0, largest element) over all players' vectors: whenever
\* M + |m| # 0 every element x becomes (x + |m|) / (M + |m|), which lies in
\* [0, 1]; the result has the keys of get_all_vectors and is what
\* NORMALIZED_VECTORS holds.
C8_GlobalMinMaxScaling ==
    (op = "normalize_all_vectors" /\ ret.kind = "dict") =>
        LET all == MODEL.wv
            E == UNION {{all[k][j] : j \in 1..Len(all[k])} : k \in DOMAIN all} \cup {0}
            m == CHOOSE x \in E : \A y \in E : x <= y
            M == CHOOSE x \in E : \A y \in E : x >= y
        IN /\ DOMAIN ret.val = DOMAIN all
           /\ NORMALIZED_VECTORS = ret.val
           /\ (M + Abs(m) # 0) =>
                 \A k \in DOMAIN all :
                    /\ Len(ret.val[k]) = Len(all[k])
                    /\ \A j \in 1..Len(all[k]) :
                          /\ ret.val[k][j] = <<all[k][j] + Abs(m), M + Abs(m)>>
                          /\ 0 <= ret.val[k][j][1]
                          /\ ret.val[k][j][1] <= ret.val[k][j][2]

\* an all-positive model was normalized: the minimum used is 0, not 1
C8_Witness ==
    /\ op = "normalize_all_vectors"
    /\ ret.kind = "dict"
    /\ DOMAIN MODEL.wv = Players
    /\ \A k \in Players : MODEL.wv[k][1] = 1
    /\ \A k \in Players : NORMALIZED_VECTORS[k][1] = <<1, 1>>

\* C9: NORMALIZED_VECTORS is None at first and changes only in a
\* normalize_all_vectors call that completes, to what that call returns;
\* w2v_train, w2v_load, get_player_vector and get_all_vectors leave it as
\* it is, also when they replace MODEL.
C9_CacheOnlyWrittenByNormalize ==
    /\ NORMALIZED_VECTORS = None
    /\ [][(NORMALIZED_VECTORS' # NORMALIZED_VECTORS
              \/ (op' = "normalize_all_vectors" /\ ret'.kind = "dict"))
            => (/\ op' = "normalize_all_vectors"
                /\ ret'.kind = "dict"
                /\ NORMALIZED_VECTORS' = ret'.val)]_vars

\* MODEL was replaced after a normalization: the cache is that of the old MODEL
C9_Witness ==
    /\ op \in {"w2v_train", "w2v_load"}
    /\ ret.kind = "None"
    /\ NORMALIZED_VECTORS # None
    /\ NORMALIZED_VECTORS # Normalized(AllVectors(MODEL))

\* ------------------------------------------------------------------------
\* Claims about train_model
\* ------------------------------------------------------------------------
EpochOrder == <<"forward", "loss", "record", "zero_grad", "backward", "step">>

TrainSafety ==
    /\ tpc # "AttributeError"
    /\ Len(aggregated_losses) <= epochs
    /\ params <= epochs
    /\ params <= Len(aggregated_losses)
    /\ Len(aggregated_losses) <= params + 1
    /\ epoch_calls = SubSeq(EpochOrder, 1, Len(epoch_calls))
    /\ \A k \in 1..Len(aggregated_losses) : aggregated_losses[k] = <<k - 1>>
    /\ \A p \in 1..Len(printed) :
          printed[p].line = "epoch" =>
              /\ printed[p].n % 25 = 1
              /\ printed[p].loss = <<printed[p].n - 1>>
    /\ \A e \in 1..params :
          e % 25 = 1 => \E p \in 1..Len(printed) :
                           printed[p].line = "epoch" /\ printed[p].n = e
    /\ (Len(grads) = 2 /\ tpc = "step") => grads[2] = Len(aggregated_losses) - 1
    /\ tpc \in {"after_loop", "plot", "done"} =>
          /\ Len(aggregated_losses) = epochs
          /\ params = epochs

====
